---- MODULE Spec2Model ----
(***************************************************************************)
(* Point store of Carte_des_fruits.py: a Google-Sheets worksheet used as   *)
(* an append-mostly table with soft deletes, read through a short-lived    *)
(* process-wide cache (st.cache_data) and written by add_item and          *)
(* soft_delete_item.  Every Streamlit session runs the script in its own   *)
(* thread; the worksheet and the cache are shared by all of them.          *)
(*                                                                         *)
(* Text that the code splits, joins or strips (the seasons cell) is a      *)
(* sequence of one-character strings.  A value read with                   *)
(* get_all_records() is a record [k, v]: k is the Python type gspread      *)
(* gives it ("int", "float" or "str") and v its text.                      *)
(***************************************************************************)
EXTENDS Integers, Sequences, FiniteSets, TLC

\* ------------------------------------------------------------- bounds
MaxRows == 2            \* data rows the worksheet may hold
MaxClock == 1           \* seconds the UTC clock may advance
MaxTags == 2            \* longest list of season tags drawn for the parsers
MaxTagLen == 2          \* longest season tag drawn for the parsers

\* two browser sessions sharing the process
Sessions == {"s1", "s2"}

\* ------------------------------------------------------------- text
WS == " "
BAR == "|"
Chars == {"a", WS, BAR}

RECURSIVE LStrip(_)
LStrip(s) == IF s # <<>> /\ Head(s) = WS THEN LStrip(Tail(s)) ELSE s

RECURSIVE RStrip(_)
RStrip(s) ==
    IF s # <<>> /\ s[Len(s)] = WS THEN RStrip(SubSeq(s, 1, Len(s) - 1)) ELSE s

\* str.strip()
Strip(s) == RStrip(LStrip(s))

\* "|".join(lst)
RECURSIVE Join(_)
Join(lst) ==
    IF lst = <<>> THEN <<>>
    ELSE IF Len(lst) = 1 THEN lst[1]
    ELSE lst[1] \o <<BAR>> \o Join(Tail(lst))

\* str.split("|"): always at least one token, "" for the empty string
RECURSIVE Split(_)
Split(s) ==
    IF \A i \in 1..Len(s) : s[i] # BAR THEN <<s>>
    ELSE LET p == CHOOSE i \in 1..Len(s) :
                      s[i] = BAR /\ \A j \in 1..(i - 1) : s[j] # BAR
         IN <<SubSeq(s, 1, p - 1)>> \o Split(SubSeq(s, p + 1, Len(s)))

_serialize_seasons(lst) == Join(lst)

\* as _parse_seasons, with blank tokens dropped
_parse_seasons_noblank(s) ==
    LET toks == Split(s)
        keep == {i \in 1..Len(toks) : Strip(toks[i]) # <<>>}
        nth(n) == CHOOSE i \in keep : Cardinality({j \in keep : j <= i}) = n
    IN [n \in 1..Cardinality(keep) |-> Strip(toks[nth(n)])]

_parse_seasons(s) ==
    IF Strip(s) = <<>> THEN <<>>
    ELSE LET toks == Split(s) IN [i \in 1..Len(toks) |-> Strip(toks[i])]

\* ------------------------------------------------------------- cells
PyStr(t) == [k |-> "str", v |-> t]
PyInt(t) == [k |-> "int", v |-> t]
PyFloat(t) == [k |-> "float", v |-> t]

\* gspread numericise() on the text of an is_deleted cell
numericise(t) == IF t \in {"0", "1"} THEN PyInt(t) ELSE PyStr(t)

\* _to_float: the number, or "error" where float() raises
_to_float(x) == IF x.k \in {"int", "float"} THEN x.v ELSE "error"

HEADER == <<"id", "name", "lat", "lon", "seasons", "is_deleted", "updated_at">>

\* the text of cell c is h (a cell of a data row may be a number or a list of
\* characters; the sheet hands them all out as text)
IsText(c, h) == ToString(c) = ToString(h)

\* the 1-based column the canonical header gives h
HeaderCol(h) == CHOOSE i \in 1..Len(HEADER) : HEADER[i] = h

\* headers.index(h) + 1, the 1-based column of update_cell; 0 for ValueError.
\* The first row of a sheet is the header or, on a sheet that was blank, the
\* first record appended: a row that starts with the text "id" holds texts
\* only, any other row is searched cell by cell through the cells' text
ColOf(headers, h) ==
    IF IsText(headers[1], "id")
    THEN LET hits == {i \in 1..Len(headers) : headers[i] = h}
         IN IF hits = {} THEN 0
            ELSE CHOOSE i \in hits : \A j \in hits : i <= j
    ELSE LET hits == {i \in 1..Len(headers) : IsText(headers[i], h)}
         IN IF hits = {} THEN 0
            ELSE CHOOSE i \in hits : \A j \in hits : i <= j

\* ------------------------------------------------------------- inputs
\* what the add form submits: a catalogue name, the number_input defaults and
\* a multiselect choice ("automne" and "hiver" are written a and h)
Forms ==
    {[name |-> "Pomme", lat |-> "46.5191", lon |-> "6.6336",
      seasons |-> << <<"a">>, <<"h">> >>],
     [name |-> "Figue", lat |-> "46.5191", lon |-> "6.6336", seasons |-> <<>>]}

\* an identifier no row carries
NoSuchId == 0

\* uuid.uuid4(): an identifier no row of the sheet carries yet
uuid4(sheet) == Len(sheet) + 1

NoArg == [id |-> NoSuchId, name |-> "", lat |-> "", lon |-> "", seasons |-> <<>>]
NoCache == [has |-> FALSE, df |-> <<>>]

\* ------------------------------------------------------------- state
VARIABLES
    ws,         \* worksheet values, row 1 the header (gspread rows are 1-based)
    now,        \* UTC clock, in seconds
    cache,      \* st.cache_data entry of _read_df: [has, df]
    pc,         \* per session: where its script run stands
    op,         \* per session: the handler it runs or ran last
    arg,        \* per session: that handler's inputs (and the uuid add drew)
    r_idx,      \* per session: soft_delete_item's r_idx (0-based, header at 0)
    df,         \* per session: the rows _read_df fetched and has not stored yet
    orphan,     \* per session: its cache object was replaced by a clear()
    trees,      \* per session: what load_items() returned to the handler
    report,     \* per session: "success", "error" or "none" shown by the handler
    s_in, s_str, s_out, s_pc   \* the season parsers applied to one input

vars == <<ws, now, cache, pc, op, arg, r_idx, df, orphan, trees, report,
          s_in, s_str, s_out, s_pc>>
store_vars == <<ws, now, cache, pc, op, arg, r_idx, df, orphan, trees, report>>
season_vars == <<s_in, s_str, s_out, s_pc>>

\* ------------------------------------------------------------- gateway
\* _gsheets_open(): the worksheet as it is.  The header is written only to a
\* worksheet the call creates, which then is the sheet <<HEADER>>; an existing
\* worksheet is returned untouched, a blank one included
_gsheets_open(sheet) == sheet

\* ws.get_all_values()
get_all_values(sheet) == sheet

\* the value a frame row has under key h: the cell under the column the first
\* row names h, or `missing` when the first row names no such column
Field(headers, row, h, missing) ==
    IF ColOf(headers, h) = 0 THEN missing ELSE row[ColOf(headers, h)]

\* a lat or lon the frame has no column for: row["lat"] raises KeyError
NoColumn == [k |-> "missing", v |-> ""]

\* ws.get_all_records(): the rows under the first row as dicts keyed by it,
\* every value numericised; _read_df then fills in is_deleted "0" and seasons
\* "" where the frame lacks the column
get_all_records(sheet) ==
    LET headers == sheet[1]
        rec(row) ==
            [id |-> Field(headers, row, "id", NoSuchId),
             name |-> Field(headers, row, "name", ""),
             lat |-> IF ColOf(headers, "lat") = 0 THEN NoColumn
                     ELSE PyFloat(row[ColOf(headers, "lat")]),
             lon |-> IF ColOf(headers, "lon") = 0 THEN NoColumn
                     ELSE PyFloat(row[ColOf(headers, "lon")]),
             seasons |-> Field(headers, row, "seasons", <<>>),
             is_deleted |-> numericise(Field(headers, row, "is_deleted", "0")),
             updated_at |-> Field(headers, row, "updated_at", 0)]
    IN [i \in 1..(Len(sheet) - 1) |-> rec(sheet[i + 1])]

\* as append_row, the row inserted right under the header
append_row_top(sheet, row) == <<sheet[1], row>> \o Tail(sheet)

\* ws.append_row(row)
append_row(sheet, row) == Append(sheet, row)

\* as update_cell, the row counted from 0
update_cell_above(sheet, r, c, value) ==
    [sheet EXCEPT ![r - 1] = [@ EXCEPT ![c] = value]]

\* ws.update_cell(r, c, value), r and c 1-based
update_cell(sheet, r, c, value) ==
    [sheet EXCEPT ![r] = [@ EXCEPT ![c] = value]]

\* _now_iso()
_now_iso == now

\* ------------------------------------------------------------- repository
Active(r) == r.is_deleted # PyStr("1")

Parses(r) == _to_float(r.lat) # "error" /\ _to_float(r.lon) # "error"

Kept(r) == Active(r) /\ Parses(r)

RECURSIVE Filter(_)
Filter(rows) ==
    IF rows = <<>> THEN <<>>
    ELSE IF Kept(Head(rows)) THEN <<Head(rows)>> \o Filter(Tail(rows))
    ELSE Filter(Tail(rows))

\* load_items() on the frame _read_df() returned
load_items(frame) ==
    LET rows == Filter(frame)
    IN [i \in 1..Len(rows) |->
            [id |-> rows[i].id,
             name |-> rows[i].name,
             lat |-> _to_float(rows[i].lat),
             lon |-> _to_float(rows[i].lon),
             seasons |-> _parse_seasons(rows[i].seasons)]]

\* the row add_item builds
NewRow(sheet, name, lat, lon, seasons) ==
    <<uuid4(sheet), name, lat, lon, _serialize_seasons(seasons), "0", _now_iso>>

\* soft_delete_item's loop: the first r_idx in 1..len(values)-1 whose id cell
\* is item_id, or 0 when the loop ends without a match
FindRow(values, id_col, item_id) ==
    LET hits == {r \in 1..(Len(values) - 1) : values[r + 1][id_col] = item_id}
    IN IF hits = {} THEN 0
       ELSE CHOOSE r \in hits : \A q \in hits : r <= q

\* a _read_df that missed the cache and has not written its result yet
Computing(s) == pc[s] \in {"fetch", "store"}

\* st.cache_data.clear(): the entry is dropped and the function's cache object
\* replaced, so a _read_df still computing writes to the discarded object
Orphaned(s) == orphan[s] \/ Computing(s)

\* as clear, the entry kept
clear_kept(c) == c

\* st.cache_data.clear() on the entry
clear(c) == NoCache

\* cache.write_result of a _read_df that missed: lost when its object was
\* replaced meanwhile
write_result(s, frame) ==
    IF orphan[s] THEN cache ELSE [has |-> TRUE, df |-> frame]

Init ==
    /\ ws = <<HEADER>>
    /\ now = 0
    /\ cache = NoCache
    /\ pc = [s \in Sessions |-> "idle"]
    /\ op = [s \in Sessions |-> "none"]
    /\ arg = [s \in Sessions |-> NoArg]
    /\ r_idx = [s \in Sessions |-> 0]
    /\ df = [s \in Sessions |-> <<>>]
    /\ orphan = [s \in Sessions |-> FALSE]
    /\ trees = [s \in Sessions |-> <<>>]
    /\ report = [s \in Sessions |-> "none"]
    /\ s_in = <<>> /\ s_str = <<>> /\ s_out = <<>> /\ s_pc = "off"

\* ------------------------------------------------------------- _read_df
\* the handler's last statements once load_items() has returned
Done(s, items) ==
    /\ trees' = [trees EXCEPT ![s] = items]
    /\ report' = [report EXCEPT ![s] =
                      IF op[s] \in {"add", "del"} THEN "success" ELSE @]
    /\ pc' = [pc EXCEPT ![s] = "done"]

\* the handler raises: the form shows the error and the run ends
Raise(s) ==
    /\ report' = [report EXCEPT ![s] = "error"]
    /\ pc' = [pc EXCEPT ![s] = "done"]

\* the script run is over (st.rerun() or the end of the script); the next
\* interaction of the session starts a new run
Rerun(s) ==
    /\ pc[s] = "done"
    /\ pc' = [pc EXCEPT ![s] = "idle"]
    /\ op' = [op EXCEPT ![s] = "none"]
    /\ arg' = [arg EXCEPT ![s] = NoArg]
    /\ r_idx' = [r_idx EXCEPT ![s] = 0]
    /\ trees' = [trees EXCEPT ![s] = <<>>]
    /\ report' = [report EXCEPT ![s] = "none"]
    /\ UNCHANGED <<ws, now, cache, df, orphan, season_vars>>

\* _read_df() finds a live entry: load_items() works on it
ReadHit(s) ==
    /\ pc[s] = "read"
    /\ cache.has
    /\ Done(s, load_items(cache.df))
    /\ UNCHANGED <<ws, now, cache, op, arg, r_idx, df, orphan, season_vars>>

\* _read_df() finds no entry and starts computing
ReadMiss(s) ==
    /\ pc[s] = "read"
    /\ ~cache.has
    /\ pc' = [pc EXCEPT ![s] = "fetch"]
    /\ orphan' = [orphan EXCEPT ![s] = FALSE]
    /\ UNCHANGED <<ws, now, cache, op, arg, r_idx, df, trees, report, season_vars>>

\* the body of _read_df: ws.get_all_records()
ReadFetch(s) ==
    /\ pc[s] = "fetch"
    /\ df' = [df EXCEPT ![s] = get_all_records(_gsheets_open(ws))]
    /\ pc' = [pc EXCEPT ![s] = "store"]
    /\ UNCHANGED <<ws, now, cache, op, arg, r_idx, orphan, trees, report, season_vars>>

\* the result is written to the cache and load_items() works on it
ReadStore(s) ==
    /\ pc[s] = "store"
    /\ cache' = write_result(s, df[s])
    /\ Done(s, load_items(df[s]))
    /\ df' = [df EXCEPT ![s] = <<>>]
    /\ orphan' = [orphan EXCEPT ![s] = FALSE]
    /\ UNCHANGED <<ws, now, op, arg, r_idx, season_vars>>

\* _invalidate_cache() by session s, which goes on to `next`
Invalidate(s, next) ==
    /\ cache' = clear(cache)
    /\ orphan' = [t \in Sessions |-> Orphaned(t)]
    /\ pc' = [pc EXCEPT ![s] = next]

\* the ttl of the entry (10 s) runs out
CacheExpire ==
    /\ cache.has
    /\ cache' = NoCache
    /\ UNCHANGED <<ws, now, pc, op, arg, r_idx, df, orphan, trees, report, season_vars>>

\* a second passes
Tick ==
    /\ now < MaxClock
    /\ now' = now + 1
    /\ UNCHANGED <<ws, cache, pc, op, arg, r_idx, df, orphan, trees, report, season_vars>>

\* ------------------------------------------------------------- handlers
\* a script run that only reads (first page load, CSV export)
PageLoad(s) ==
    /\ pc[s] = "idle"
    /\ op' = [op EXCEPT ![s] = "load"]
    /\ arg' = [arg EXCEPT ![s] = NoArg]
    /\ report' = [report EXCEPT ![s] = "none"]
    /\ pc' = [pc EXCEPT ![s] = "read"]
    /\ UNCHANGED <<ws, now, cache, r_idx, df, orphan, trees, season_vars>>

\* the refresh button: _invalidate_cache(), then load_items()
Refresh(s) ==
    /\ pc[s] = "idle"
    /\ op' = [op EXCEPT ![s] = "refresh"]
    /\ arg' = [arg EXCEPT ![s] = NoArg]
    /\ report' = [report EXCEPT ![s] = "none"]
    /\ Invalidate(s, "read")
    /\ UNCHANGED <<ws, now, r_idx, df, trees, season_vars>>

\* add_item up to ws.append_row, which appends the row or raises; the form
\* handler catches the exception and shows an error
AddAppend(s, f, ok) ==
    /\ pc[s] = "idle"
    /\ Len(ws) - 1 < MaxRows
    /\ op' = [op EXCEPT ![s] = "add"]
    /\ arg' = [arg EXCEPT ![s] = [id |-> uuid4(ws), name |-> f.name, lat |-> f.lat,
                                  lon |-> f.lon, seasons |-> f.seasons]]
    /\ IF ok
       THEN /\ ws' = append_row(_gsheets_open(ws),
                                 NewRow(ws, f.name, f.lat, f.lon, f.seasons))
            /\ pc' = [pc EXCEPT ![s] = "add_inval"]
            /\ report' = [report EXCEPT ![s] = "none"]
       ELSE /\ ws' = ws
            /\ Raise(s)
    /\ UNCHANGED <<now, cache, r_idx, df, orphan, trees, season_vars>>

\* add_item's _invalidate_cache(), after which it returns
AddInvalidate(s) ==
    /\ pc[s] = "add_inval"
    /\ Invalidate(s, "returned")
    /\ UNCHANGED <<ws, now, op, arg, r_idx, df, trees, report, season_vars>>

\* soft_delete_item up to the end of its scan: get_all_values(), the header
\* lookups and the loop to the matching row.  Without a match it warns and
\* returns None, as it does after a deletion
DelScan(s, item_id) ==
    /\ pc[s] = "idle"
    /\ op' = [op EXCEPT ![s] = "del"]
    /\ arg' = [arg EXCEPT ![s] = [NoArg EXCEPT !.id = item_id]]
    /\ report' = [report EXCEPT ![s] = "none"]
    /\ LET values == get_all_values(_gsheets_open(ws))
           headers == values[1]
           id_col == ColOf(headers, "id")
           found == IF values = <<>> THEN 0
                    ELSE IF id_col = 0 \/ ColOf(headers, "is_deleted") = 0
                            \/ ColOf(headers, "updated_at") = 0
                    THEN 0
                    ELSE FindRow(values, id_col, item_id)
       IN /\ r_idx' = [r_idx EXCEPT ![s] = found]
          /\ pc' = [pc EXCEPT ![s] = IF found = 0 THEN "returned" ELSE "del_flag"]
    /\ UNCHANGED <<ws, now, cache, df, orphan, trees, season_vars>>

\* ws.update_cell(r_idx+1, isdel_col+1, "1"), which writes or raises
DelFlag(s, ok) ==
    /\ pc[s] = "del_flag"
    /\ IF ok
       THEN /\ ws' = update_cell(ws, r_idx[s] + 1, HeaderCol("is_deleted"), "1")
            /\ pc' = [pc EXCEPT ![s] = "del_upd"]
            /\ report' = report
       ELSE /\ ws' = ws
            /\ Raise(s)
    /\ UNCHANGED <<now, cache, op, arg, r_idx, df, orphan, trees, season_vars>>

\* ws.update_cell(r_idx+1, upd_col+1, _now_iso()), which writes or raises
DelStamp(s, ok) ==
    /\ pc[s] = "del_upd"
    /\ IF ok
       THEN /\ ws' = update_cell(ws, r_idx[s] + 1, HeaderCol("updated_at"), _now_iso)
            /\ pc' = [pc EXCEPT ![s] = "del_inval"]
            /\ report' = report
       ELSE /\ ws' = ws
            /\ Raise(s)
    /\ UNCHANGED <<now, cache, op, arg, r_idx, df, orphan, trees, season_vars>>

\* soft_delete_item's _invalidate_cache(), after which it returns
DelInvalidate(s) ==
    /\ pc[s] = "del_inval"
    /\ Invalidate(s, "returned")
    /\ UNCHANGED <<ws, now, op, arg, r_idx, df, trees, report, season_vars>>

\* add_item or soft_delete_item has returned without raising: the form handler
\* calls load_items() and then shows its success message
HandlerLoad(s) ==
    /\ pc[s] = "returned"
    /\ pc' = [pc EXCEPT ![s] = "read"]
    /\ UNCHANGED <<ws, now, cache, op, arg, r_idx, df, orphan, trees, report, season_vars>>

\* add_item or soft_delete_item has returned to a caller that reads nothing
EndCall(s) ==
    /\ pc[s] = "returned"
    /\ pc' = [pc EXCEPT ![s] = "idle"]
    /\ op' = [op EXCEPT ![s] = "none"]
    /\ arg' = [arg EXCEPT ![s] = NoArg]
    /\ r_idx' = [r_idx EXCEPT ![s] = 0]
    /\ UNCHANGED <<ws, now, cache, df, orphan, trees, report, season_vars>>

\* the identifiers the rows of the sheet carry
Ids(sheet) ==
    LET first == IF sheet # <<>> /\ IsText(sheet[1][HeaderCol("id")], "id")
                 THEN 2 ELSE 1
    IN {sheet[i][HeaderCol("id")] : i \in first..Len(sheet)}

Step(s) ==
    \/ ReadHit(s)
    \/ ReadMiss(s)
    \/ ReadFetch(s)
    \/ ReadStore(s)
    \/ PageLoad(s)
    \/ Refresh(s)
    \/ \E f \in Forms, ok \in BOOLEAN : AddAppend(s, f, ok)
    \/ AddInvalidate(s)
    \/ \E item_id \in Ids(ws) \cup {NoSuchId} : DelScan(s, item_id)
    \/ \E ok \in BOOLEAN : DelFlag(s, ok)
    \/ \E ok \in BOOLEAN : DelStamp(s, ok)
    \/ DelInvalidate(s)
    \/ HandlerLoad(s)
    \/ Rerun(s)

\* a call of add_item or of soft_delete_item alone
Write(s) ==
    \/ \E f \in Forms, ok \in BOOLEAN : AddAppend(s, f, ok)
    \/ AddInvalidate(s)
    \/ \E item_id \in Ids(ws) \cup {NoSuchId} : DelScan(s, item_id)
    \/ \E ok \in BOOLEAN : DelFlag(s, ok)
    \/ \E ok \in BOOLEAN : DelStamp(s, ok)
    \/ DelInvalidate(s)
    \/ EndCall(s)
    \/ Rerun(s)

Next ==
    \/ \E s \in Sessions : Step(s)
    \/ CacheExpire
    \/ Tick

\* every session runs the page's handlers
Spec == Init /\ [][Next]_vars

\* one session alone
NextSolo ==
    \/ Step("s1")
    \/ CacheExpire
    \/ Tick

SpecSolo == Init /\ [][NextSolo]_vars

\* the worksheet the secrets name already exists: with the header, or blank
InitOpen ==
    /\ ws \in {<<HEADER>>, <<>>}
    /\ now = 0
    /\ cache = NoCache
    /\ pc = [s \in Sessions |-> "idle"]
    /\ op = [s \in Sessions |-> "none"]
    /\ arg = [s \in Sessions |-> NoArg]
    /\ r_idx = [s \in Sessions |-> 0]
    /\ df = [s \in Sessions |-> <<>>]
    /\ orphan = [s \in Sessions |-> FALSE]
    /\ trees = [s \in Sessions |-> <<>>]
    /\ report = [s \in Sessions |-> "none"]
    /\ s_in = <<>> /\ s_str = <<>> /\ s_out = <<>> /\ s_pc = "off"

\* one session alone on such a worksheet
SpecOpen == InitOpen /\ [][NextSolo]_vars

\* the sessions only write: add_item and soft_delete_item race
NextWrites ==
    \/ \E s \in Sessions : Write(s)
    \/ Tick

SpecWrites == Init /\ [][NextWrites]_vars

\* ------------------------------------------------------------- season parsers
RECURSIVE SeqsUpTo(_, _)
SeqsUpTo(S, n) ==
    IF n = 0 THEN {<<>>}
    ELSE LET shorter == SeqsUpTo(S, n - 1)
         IN shorter \cup {Append(q, x) : q \in shorter, x \in S}

Tags == SeqsUpTo(Chars, MaxTagLen)
TagLists == SeqsUpTo(Tags, MaxTags)

InitSeasons ==
    /\ ws = <<HEADER>>
    /\ now = 0
    /\ cache = NoCache
    /\ pc = [s \in Sessions |-> "idle"]
    /\ op = [s \in Sessions |-> "none"]
    /\ arg = [s \in Sessions |-> NoArg]
    /\ r_idx = [s \in Sessions |-> 0]
    /\ df = [s \in Sessions |-> <<>>]
    /\ orphan = [s \in Sessions |-> FALSE]
    /\ trees = [s \in Sessions |-> <<>>]
    /\ report = [s \in Sessions |-> "none"]
    /\ s_in \in TagLists
    /\ s_str = <<>>
    /\ s_out = <<>>
    /\ s_pc = "in"

\* _serialize_seasons(s_in)
Serialize ==
    /\ s_pc = "in"
    /\ s_str' = _serialize_seasons(s_in)
    /\ s_pc' = "ser"
    /\ UNCHANGED <<s_in, s_out, store_vars>>

\* _parse_seasons of the serialized text
Parse ==
    /\ s_pc = "ser"
    /\ s_out' = _parse_seasons(s_str)
    /\ s_pc' = "out"
    /\ UNCHANGED <<s_in, s_str, store_vars>>

NextSeasons == Serialize \/ Parse

SpecSeasons == InitSeasons /\ [][NextSeasons]_vars

\* ------------------------------------------------------------- observations
\* the cell of sheet row r under column h
Cell(sheet, r, h) == sheet[r][HeaderCol(h)]

\* the sheet rows that carry identifier id
RowsOf(sheet, id) == {r \in 2..Len(sheet) : Cell(sheet, r, "id") = id}

\* the items of a list that carry identifier id
ItemsOf(items, id) == {i \in 1..Len(items) : items[i].id = id}

\* the is_deleted value of a frame row reduced to "0"/"1": "1", "1 ", "1,0"
\* and the number 1 all give "1"
Normalized(x) == IF x.v \in {"1", "1 ", "1,0", "1.0"} THEN "1" ELSE "0"

\* session s is handed the result of load_items() in this step
Listed(s) == pc[s] \in {"read", "store"} /\ pc'[s] = "done"

\* the frame that result is computed from
FrameOf(s) == IF pc[s] = "store" THEN df[s] ELSE cache.df

\* session s has been shown the success message of an add
Added(s) == pc[s] = "done" /\ op[s] = "add" /\ report[s] = "success"

\* session s has been shown the success message of a delete that found its row
Deleted(s) ==
    pc[s] = "done" /\ op[s] = "del" /\ report[s] = "success" /\ r_idx[s] # 0

\* the list shows the record session s added, once, as submitted
SeesAdd(s) ==
    /\ Cardinality(ItemsOf(trees[s], arg[s].id)) = 1
    /\ \A i \in ItemsOf(trees[s], arg[s].id) :
           /\ trees[s][i].name = arg[s].name
           /\ trees[s][i].lat = arg[s].lat
           /\ trees[s][i].lon = arg[s].lon
           /\ trees[s][i].seasons = arg[s].seasons

\* the list no longer shows the record session s deleted
SeesDelete(s) == ItemsOf(trees[s], arg[s].id) = {}

\* ------------------------------------------------------------- claims

\* C1: list_active() never returns a record whose is_deleted, normalized to
\* "0"/"1", is "1": whenever a session is handed the items of a frame, no item
\* comes from a frame row whose normalized flag is "1".
C1_NoDeletedListed ==
    [][\A s \in Sessions :
          Listed(s) =>
              \A i \in 1..Len(trees'[s]) :
                  \A j \in 1..Len(FrameOf(s)) :
                      FrameOf(s)[j].id = trees'[s][i].id
                          => Normalized(FrameOf(s)[j].is_deleted) # "1"]_vars

\* C2: after soft_delete(id) of an existing active row, the next list_active()
\* excludes the id, while the sheet still holds the row at its position with
\* is_deleted "1".
C2_DeletedHiddenButKept ==
    Deleted("s1") =>
        /\ SeesDelete("s1")
        /\ Cell(ws, r_idx["s1"] + 1, "id") = arg["s1"].id
        /\ Cell(ws, r_idx["s1"] + 1, "is_deleted") = "1"

\* C3: in a single session, once add or soft_delete has returned, the next
\* list_active() reflects the write: the added record is there exactly once
\* with its name, coordinates and seasons, the deleted one is gone.
C3_NextListReflectsWrite ==
    /\ Added("s1") => SeesAdd("s1")
    /\ Deleted("s1") => SeesDelete("s1")

\* C4: soft_delete of an id no row carries signals failure, so that its caller
\* reports no successful deletion, and writes no cell of the sheet.
C4_NotFoundSignalled ==
    [][\A s \in Sessions :
          /\ (pc[s] = "idle" /\ op'[s] = "del" /\ r_idx'[s] = 0) => ws' = ws
          /\ (op[s] = "del" /\ r_idx[s] = 0 /\ pc'[s] = "done")
                 => (ws' = ws /\ report'[s] # "success")]_vars

\* C5: add does not partially apply: either the row is appended and then the
\* cache is invalidated, or the error reaches the caller with the sheet and the
\* cached snapshot as they were.
C5_AddAllOrNothing ==
    [][\A s \in Sessions :
          /\ (pc[s] = "idle" /\ op'[s] = "add" /\ pc'[s] = "done")
                 => (report'[s] = "error" /\ ws' = ws /\ cache' = cache)
          /\ (pc[s] = "idle" /\ op'[s] = "add" /\ pc'[s] # "done")
                 => /\ pc'[s] = "add_inval"
                    /\ Len(ws') = Len(ws) + 1
                    /\ SubSeq(ws', 1, Len(ws)) = ws
                    /\ Cell(ws', Len(ws'), "id") = arg'[s].id
                    /\ Cell(ws', Len(ws'), "name") = arg'[s].name
                    /\ cache' = cache
          /\ (pc[s] = "add_inval" /\ pc'[s] # "add_inval")
                 => (pc'[s] = "returned" /\ ws' = ws /\ ~cache'.has)]_vars

\* a failed add leaves a live snapshot in the cache
C5_Witness ==
    /\ pc["s1"] = "done" /\ op["s1"] = "add" /\ report["s1"] = "error"
    /\ cache.has
    /\ Len(cache.df) = 1

\* C6: with sessions interleaving, a session that completed add or soft_delete
\* sees that write in its own next list_active(), and once its write has
\* invalidated the cache no snapshot taken before the write is in the cache.
C6_WriterSeesOwnWrite ==
    \A s \in Sessions :
        /\ Added(s) => SeesAdd(s)
        /\ Deleted(s) => SeesDelete(s)
        /\ (pc[s] \in {"returned", "read"} /\ op[s] = "add" /\ cache.has)
               => \E j \in 1..Len(cache.df) : cache.df[j].id = arg[s].id
        /\ (pc[s] \in {"returned", "read"} /\ op[s] = "del" /\ r_idx[s] # 0
                /\ cache.has)
               => \A j \in 1..Len(cache.df) :
                      cache.df[j].id = arg[s].id
                          => Normalized(cache.df[j].is_deleted) = "1"

\* the cache part of C6 on its own: once a write has invalidated the cache, a
\* snapshot found there holds the write
CacheNeverStale ==
    \A s \in Sessions :
        /\ (pc[s] \in {"returned", "read"} /\ op[s] = "add" /\ cache.has)
               => \E j \in 1..Len(cache.df) : cache.df[j].id = arg[s].id
        /\ (pc[s] \in {"returned", "read"} /\ op[s] = "del" /\ r_idx[s] # 0
                /\ cache.has)
               => \A j \in 1..Len(cache.df) :
                      cache.df[j].id = arg[s].id
                          => Normalized(cache.df[j].is_deleted) = "1"

\* C7: rows are never removed or moved and keep their id, and a row whose
\* is_deleted is "1" keeps it.
C7_LifecycleMonotone ==
    [][/\ Len(ws') >= Len(ws)
       /\ \A r \in 2..Len(ws) :
              /\ Cell(ws', r, "id") = Cell(ws, r, "id")
              /\ Cell(ws, r, "is_deleted") = "1"
                     => Cell(ws', r, "is_deleted") = "1"]_vars

\* a deleted row with a row added after it
C7_Witness ==
    /\ Len(ws) = 3
    /\ Cell(ws, 2, "is_deleted") = "1"
    /\ Cell(ws, 3, "updated_at") > Cell(ws, 2, "updated_at")

\* a list of tags without "|" and without leading or trailing whitespace
Admissible(lst) ==
    \A i \in 1..Len(lst) :
        /\ \A j \in 1..Len(lst[i]) : lst[i][j] # BAR
        /\ Strip(lst[i]) = lst[i]

\* C8 as stated: parse_seasons(serialize_seasons(S)) = S for every admissible
\* S, the one-element list of the empty tag included.
C8_RoundTripAll ==
    (s_pc = "out" /\ Admissible(s_in)) => s_out = s_in

\* C8: parse_seasons(serialize_seasons(S)) = S for every admissible S other
\* than the one-element list holding the empty tag.
C8_RoundTrip ==
    (s_pc = "out" /\ Admissible(s_in) /\ s_in # << <<>> >>) => s_out = s_in

\* a list with an empty tag comes back as it went in
C8_Witness ==
    s_pc = "out" /\ s_in = << <<>>, <<"a">> >> /\ s_out = s_in

\* C9: soft_delete writes is_deleted "1" and the new updated_at in one update:
\* the step that sets the flag of a row sets its updated_at to the time of the
\* write, and no run ends with a flag it wrote and the cache not invalidated.
C9_FlagAndStampTogether ==
    [][/\ \A r \in 2..Len(ws) :
              (Cell(ws, r, "is_deleted") # "1" /\ Cell(ws', r, "is_deleted") = "1")
                  => Cell(ws', r, "updated_at") = now
       /\ \A s \in Sessions :
              (pc[s] = "del_upd" /\ pc'[s] = "done") => ~cache'.has]_vars

\* C10: soft_delete calls on different ids racing with each other and with
\* adds: a call that returns after finding its row leaves that row with
\* is_deleted "1", and every step writes only the is_deleted and updated_at
\* cells of a row some running soft_delete targets.
C10_RacingDeletesSafe ==
    /\ [](\A s \in Sessions :
              (pc[s] = "returned" /\ op[s] = "del" /\ r_idx[s] # 0)
                  => \A r \in RowsOf(ws, arg[s].id) :
                         Cell(ws, r, "is_deleted") = "1")
    /\ [][\A r \in 1..Len(ws) :
              ws'[r] # ws[r] =>
                  /\ r >= 2
                  /\ \A c \in 1..Len(HEADER) :
                         ws'[r][c] # ws[r][c]
                             => HEADER[c] \in {"is_deleted", "updated_at"}
                  /\ \E s \in Sessions :
                         /\ pc[s] \in {"del_flag", "del_upd"}
                         /\ Cell(ws, r, "id") = arg[s].id]_vars

\* two soft_delete calls on different rows, both between their two writes
C10_Witness ==
    /\ pc["s1"] = "del_upd" /\ pc["s2"] = "del_upd"
    /\ r_idx["s1"] # r_idx["s2"]
    /\ Cell(ws, r_idx["s1"] + 1, "is_deleted") = "1"
    /\ Cell(ws, r_idx["s2"] + 1, "is_deleted") = "1"

\* the first row of the sheet is the canonical header
HasHeader(sheet) == sheet # <<>> /\ ToString(sheet[1]) = ToString(HEADER)

\* session s has opened the worksheet in its current run
Opened(s) ==
    pc[s] \in {"store", "add_inval", "del_flag", "del_upd", "del_inval", "returned"}

\* C11: once the gateway has opened the worksheet its first row is the
\* canonical header, also when the row was empty before, so that no data row
\* is written above a header; a record added to an existing blank sheet is kept
\* as a data row and the next list_active() returns it.
C11_HeaderRepaired ==
    /\ \A s \in Sessions : Opened(s) => HasHeader(ws)
    /\ ws # <<>> => HasHeader(ws)
    /\ Added("s1") => SeesAdd("s1")

====
